---- MODULE Spec2Model ----
(***************************************************************************)
(* The N-body engine of orbital-playground (src/js/core): Vector2, Body    *)
(* and Simulation, with the UI handlers of app.js that write engine state. *)
(*                                                                         *)
(* Numbers.  The engine computes in IEEE doubles.  Here a real quantity is *)
(* an integer count of a fixed unit, and every product or quotient is      *)
(* rounded to the nearest unit (the role the double's rounding plays):     *)
(*   lengths, velocities, accelerations : 1/LS  (px, px/s, px/s^2)         *)
(*   squared lengths                    : 1/LS  (px^2)                     *)
(*   times and the scalars of scale()   : 1/TS  (s, or a pure ratio)       *)
(*   masses, G, softening, forces       : 1                                *)
(* Masses are sums of the integer presets, so mass arithmetic is exact.    *)
(***************************************************************************)
EXTENDS Integers, Sequences, FiniteSets, TLC

(* ---------------------------------------------------------------- units *)
LS == 10 ^ 3
TS == LS * LS

(* ------------------------------------------------- rounded arithmetic   *)
Abs(a) == IF a < 0 THEN -a ELSE a
Sgn(a) == IF a < 0 THEN -1 ELSE IF a > 0 THEN 1 ELSE 0
Min(a, b) == IF a <= b THEN a ELSE b
Max(a, b) == IF a >= b THEN a ELSE b

(* The largest integer of the arithmetic; no intermediate result below     *)
(* exceeds it.                                                             *)
MaxInt == (2 ^ 30 - 1) * 2 + 1

(* <<q, r>> with a * b = q * c + r and 0 <= r < c, for a, b >= 0 and       *)
(* 0 < c <= 2^30: long multiplication of b by the digits of a in base      *)
(* base, reducing modulo c after every digit.                              *)
RECURSIVE QuoRem(_, _, _, _)
QuoRem(a, b, c, base) ==
    IF a = 0 THEN <<0, 0>>
    ELSE LET h  == QuoRem(a \div base, b, c, base)
             d  == a % base
             t1 == h[2] * base
             t2 == (t1 % c) + d * (b % c)
         IN  << h[1] * base + (t1 \div c) + d * (b \div c) + (t2 \div c), t2 % c >>

Base(c) == Max(2, MaxInt \div c)

(* floor(a * b / c) for a, b >= 0 *)
MulDivFloor(a, b, c) ==
    IF a <= b THEN QuoRem(a, b, c, Base(c))[1] ELSE QuoRem(b, a, c, Base(c))[1]

(* the quotient of <<q, r>> = a * b / c rounded to the nearest integer,     *)
(* ties away from zero                                                      *)
Nearest(qr, c) == IF qr[2] >= c - qr[2] THEN qr[1] + 1 ELSE qr[1]

(* a * b / c rounded to the nearest integer, ties away from zero *)
MulDivAbs(x, y, z) ==
    Nearest(IF x <= y THEN QuoRem(x, y, z, Base(z)) ELSE QuoRem(y, x, z, Base(z)), z)

MulDiv(a, b, c) == Sgn(a) * Sgn(b) * Sgn(c) * MulDivAbs(Abs(a), Abs(b), Abs(c))

(* The largest r with r * r <= n, by Newton's iteration from above.        *)
RECURSIVE ISqrtFrom(_, _)
ISqrtFrom(n, r) ==
    LET m == (r + n \div r) \div 2
    IN  IF m >= r THEN r ELSE ISqrtFrom(n, m)

PowersOfTwo == {2 ^ k : k \in 0..15}

ISqrt(n) ==
    IF n <= 0 THEN 0
    ELSE LET above == {p \in PowersOfTwo : p * p >= n}
         IN  ISqrtFrom(n, IF above = {} THEN 46340
                          ELSE CHOOSE p \in above : \A q \in above : p <= q)

(* Math.sqrt of a squared length x (unit 1/LS px^2), as a length (1/LS px): *)
(* the largest r with r * r <= x * LS, by Newton's iteration from above.   *)
RECURSIVE SqrtFrom(_, _)
SqrtFrom(x, r) ==
    LET n == (r + MulDivFloor(x, LS, r)) \div 2
    IN  IF n >= r THEN r ELSE SqrtFrom(x, n)

Sqrt(x) == IF x <= 0 THEN 0 ELSE SqrtFrom(x, (ISqrt(x) + 1) * (ISqrt(LS) + 1))

(* Math.cbrt of a ratio q (unit 1/LS), as a ratio (unit 1/LS): the largest *)
(* r with r^3 <= q * LS^2, by bisection.                                   *)
RECURSIVE CbrtBetween(_, _, _)
CbrtBetween(n, lo, hi) ==
    IF hi - lo <= 1 THEN lo
    ELSE LET mid == (lo + hi) \div 2
         IN  IF MulDivFloor(mid, mid, LS) * mid <= n * LS
             THEN CbrtBetween(n, mid, hi)
             ELSE CbrtBetween(n, lo, mid)

Cbrt(q) == CbrtBetween(q, 0, Max(q, LS) + 1)

(* ------------------------------------------------------------ config.js *)
PHYSICS_G == 800
PHYSICS_SOFTENING == 8
PHYSICS_SUBSTEPS == 6
MAX_FRAME_DT == (5 * TS) \div 100
DEFAULT_TIME_SCALE == 2
MAX_TRAIL_LENGTH == 200

Types == {"star", "planet", "moon"}

BODY_TYPES ==
    [star   |-> [mass |-> 3000, radius |-> 22 * LS],
     planet |-> [mass |-> 400,  radius |-> 10 * LS],
     moon   |-> [mass |-> 30,   radius |-> 5 * LS]]

(* ----------------------------------------------------------- Vector2.js *)
Vector2(x, y) == [x |-> x, y |-> y]
Zero == Vector2(0, 0)

add(u, v) == Vector2(u.x + v.x, u.y + v.y)
sub(u, v) == Vector2(u.x - v.x, u.y - v.y)
(* s is a time or a ratio, unit 1/TS *)
scale(v, s) == Vector2(MulDiv(v.x, s, TS), MulDiv(v.y, s, TS))

distSq(a, b) ==
    LET dx == b.x - a.x
        dy == b.y - a.y
    IN  MulDiv(dx, dx, LS) + MulDiv(dy, dy, LS)

dist(a, b) == Sqrt(distSq(a, b))

mag(v) == Sqrt(MulDiv(v.x, v.x, LS) + MulDiv(v.y, v.y, LS))

(* the components that 0 * (1 / 0) gives: not a number *)
NaN == 0 - MaxInt
(* 1 / m in units of 1/TS; 1 / 0 is infinite and marked by NaN here *)
reciprocal(m) == IF m = 0 THEN NaN ELSE MulDiv(TS, LS, m)
scaleBy(v, s) == IF s = NaN THEN Vector2(NaN, NaN) ELSE scale(v, s)

(* normalized without the test for a zero magnitude *)
normalizedUnguarded(v) == scaleBy(v, reciprocal(mag(v)))

normalized(v) == IF mag(v) = 0 THEN Zero ELSE scaleBy(v, reciprocal(mag(v)))

(* ------------------------------------------------------------ Vector3.js *)
Vector3(x, y, z) == [x |-> x, y |-> y, z |-> z]
Zero3 == Vector3(0, 0, 0)
scale3(v, s) ==
    IF s = NaN THEN Vector3(NaN, NaN, NaN)
    ELSE Vector3(MulDiv(v.x, s, TS), MulDiv(v.y, s, TS), MulDiv(v.z, s, TS))
mag3(v) ==
    Sqrt(MulDiv(v.x, v.x, LS) + MulDiv(v.y, v.y, LS) + MulDiv(v.z, v.z, LS))

normalized3(v) == IF mag3(v) = 0 THEN Zero3 ELSE scale3(v, reciprocal(mag3(v)))

(* -------------------------------------------------------------- Body.js *)
(* id stands for the identity of the JavaScript object.                   *)
(* a Body that ignores the velocity it is given *)
BodyAtRest(id, type, position, velocity) ==
    [id |-> id, type |-> type,
     mass |-> BODY_TYPES[type].mass, radius |-> BODY_TYPES[type].radius,
     pos |-> position, vel |-> Zero, acc |-> Zero,
     trail |-> << >>, maxTrail |-> MAX_TRAIL_LENGTH, alive |-> TRUE, age |-> 0]

Body(id, type, position, velocity) ==
    [id       |-> id,
     type     |-> type,
     mass     |-> BODY_TYPES[type].mass,
     radius   |-> BODY_TYPES[type].radius,
     pos      |-> position,
     vel      |-> velocity,
     acc      |-> Zero,
     trail    |-> << >>,
     maxTrail |-> MAX_TRAIL_LENGTH,
     alive    |-> TRUE,
     age      |-> 0]

(* a recordTrail that drops the new position when the trail is full *)
recordTrailKeepingOldest(b) ==
    IF Len(b.trail) + 1 > b.maxTrail THEN b
    ELSE [b EXCEPT !.trail = Append(b.trail, b.pos)]

recordTrail(b) ==
    LET pushed == Append(b.trail, b.pos)
    IN  [b EXCEPT !.trail = IF Len(pushed) > b.maxTrail THEN Tail(pushed)
                                                         ELSE pushed]

(* u * mu / total + v * mv / total: the mass-weighted mean of absorb() *)
weighted(u, mu, v, mv, total) ==
    add(scale(u, MulDiv(mu, TS, total)), scale(v, MulDiv(mv, TS, total)))

(* the absorbing body with the merged velocity and position, its mass and  *)
(* radius left as they were                                                *)
grownKeepsMass(this, other, totalMass) ==
    [this EXCEPT
       !.vel = weighted(this.vel, this.mass, other.vel, other.mass, totalMass),
       !.pos = weighted(this.pos, this.mass, other.pos, other.mass, totalMass)]

(* the absorbing body with the radius scaled by the inverse mass ratio *)
grownInverted(this, other, totalMass) ==
    [this EXCEPT
       !.vel    = weighted(this.vel, this.mass, other.vel, other.mass, totalMass),
       !.pos    = weighted(this.pos, this.mass, other.pos, other.mass, totalMass),
       !.radius = MulDiv(this.radius, Cbrt(MulDiv(this.mass, LS, totalMass)), LS),
       !.mass   = totalMass]

(* the absorbing body starting a new life at age 0 *)
grownReborn(this, other, totalMass) ==
    [this EXCEPT
       !.vel    = weighted(this.vel, this.mass, other.vel, other.mass, totalMass),
       !.pos    = weighted(this.pos, this.mass, other.pos, other.mass, totalMass),
       !.radius = MulDiv(this.radius, Cbrt(MulDiv(totalMass, LS, this.mass)), LS),
       !.mass   = totalMass,
       !.age    = 0]

(* the absorbing body with the merged velocity, position, radius and mass *)
grown(this, other, totalMass) ==
    [this EXCEPT
       !.vel    = weighted(this.vel, this.mass, other.vel, other.mass, totalMass),
       !.pos    = weighted(this.pos, this.mass, other.pos, other.mass, totalMass),
       !.radius = MulDiv(this.radius, Cbrt(MulDiv(totalMass, LS, this.mass)), LS),
       !.mass   = totalMass]

(* the promotion of a heavy body to a star at the end of absorb() *)
(* the promotion with the threshold included *)
promotedAtThreshold(b) ==
    IF b.type # "star" /\ b.mass >= 2000 THEN [b EXCEPT !.type = "star"] ELSE b

promoted(b) ==
    IF b.type # "star" /\ b.mass > 2000 THEN [b EXCEPT !.type = "star"] ELSE b

(* an absorb that leaves neither body alive *)
absorbKillingBoth(this, other) ==
    << [promoted(grown(this, other, this.mass + other.mass)) EXCEPT !.alive = FALSE],
       [other EXCEPT !.alive = FALSE] >>

(* this.absorb(other): <<this, other>> after the call *)
absorb(this, other) ==
    << promoted(grown(this, other, this.mass + other.mass)),
       [other EXCEPT !.alive = FALSE] >>

(* -------------------------------------------------------- Simulation.js *)
Indices(bs) == 1..Len(bs)

(* the speed for the G of config.js whatever the engine's G is *)
orbitalSpeedDefaultG(g, centralMass, distance) ==
    Sqrt(MulDiv(PHYSICS_G * centralMass, TS, distance))

orbitalSpeed(g, centralMass, distance) ==
    Sqrt(MulDiv(g * centralMass, TS, distance))

(* the force of the pair along x and y, from its size and the distance *)
forceVector(force, dx, dy, d) == Vector2(MulDiv(force, dx, d), MulDiv(force, dy, d))

(* the force between masses ma and mb at offset (dx, dy), softened *)
pairForce(g, ma, mb, dx, dy, dSq) ==
    forceVector(MulDiv(g * ma, mb * LS, dSq), dx, dy, Sqrt(dSq))

(* a.acc += f / a.mass and b.acc -= f / b.mass for a = bs[i], b = bs[j] *)
applyForce(bs, i, j, f) ==
    [bs EXCEPT
       ![i].acc = Vector2(@.x + MulDiv(f.x, LS, bs[i].mass),
                          @.y + MulDiv(f.y, LS, bs[i].mass)),
       ![j].acc = Vector2(@.x - MulDiv(f.x, LS, bs[j].mass),
                          @.y - MulDiv(f.y, LS, bs[j].mass))]

(* One iteration of the inner loop of _computeAccelerations on pair i < j *)
accelPair(bs, i, j, g, softSq) ==
    applyForce(bs, i, j,
               pairForce(g, bs[i].mass, bs[j].mass,
                         bs[j].pos.x - bs[i].pos.x, bs[j].pos.y - bs[i].pos.y,
                         distSq(bs[i].pos, bs[j].pos) + softSq))

(* The loops below compute the list of one iteration before they start the *)
(* next one: Computed(v) is TRUE once v has a value.                       *)
Computed(v) == v = v

RECURSIVE accelInner(_, _, _, _, _)
accelInner(bs, i, j, g, softSq) ==
    IF ~Computed(bs) \/ j > Len(bs) THEN bs
    ELSE accelInner(accelPair(bs, i, j, g, softSq), i, j + 1, g, softSq)

RECURSIVE accelOuter(_, _, _, _)
accelOuter(bs, i, g, softSq) ==
    IF ~Computed(bs) \/ i > Len(bs) THEN bs
    ELSE accelOuter(accelInner(bs, i, i + 1, g, softSq), i + 1, g, softSq)

_computeAccelerations(bs, g, soft) ==
    accelOuter([k \in Indices(bs) |-> [bs[k] EXCEPT !.acc = Zero]],
               1, g, soft * soft * LS)

halfKick(bs, dt) ==
    [k \in Indices(bs) |->
        [bs[k] EXCEPT !.vel = add(bs[k].vel, scale(bs[k].acc, MulDiv(5, dt, 10)))]]

drift(bs, dt) ==
    [k \in Indices(bs) |->
        [bs[k] EXCEPT !.pos = add(bs[k].pos, scale(bs[k].vel, dt))]]

(* a substep that moves the bodies before the first half-kick *)
_integrateVerletDriftFirst(bs, dt, g, soft) ==
    halfKick(_computeAccelerations(halfKick(drift(bs, dt), dt), g, soft), dt)

_integrateVerlet(bs, dt, g, soft) ==
    halfKick(_computeAccelerations(drift(halfKick(bs, dt), dt), g, soft), dt)

RECURSIVE substepLoop(_, _, _, _, _)
substepLoop(bs, s, dt, g, soft) ==
    IF ~Computed(bs) \/ s = 0 THEN bs
    ELSE substepLoop(_integrateVerlet(bs, dt, g, soft), s - 1, dt, g, soft)

(* The collision pass.  log records, for every call of absorb in the pass, *)
(* who absorbed whom and what the two bodies were just before the call.   *)
MergeEvent(big, small, after) ==
    [big        |-> big.id,
     small      |-> small.id,
     bigAlive   |-> big.alive,
     smallAlive |-> small.alive,
     bigMass    |-> big.mass,
     smallMass  |-> small.mass,
     bigVel     |-> big.vel,
     smallVel   |-> small.vel,
     bigType    |-> big.type,
     afterMass  |-> after.mass,
     afterVel   |-> after.vel,
     afterType  |-> after.type]

(* big.absorb(small) for big = bodies[bigIdx], small = bodies[smallIdx],   *)
(* given the pair r the call leaves                                        *)
merged(st, bigIdx, smallIdx, r) ==
    [bodies |-> [st.bodies EXCEPT ![bigIdx] = r[1], ![smallIdx] = r[2]],
     log    |-> Append(st.log, MergeEvent(st.bodies[bigIdx], st.bodies[smallIdx], r[1]))]

(* the inner loop's body comparing the squared distance with the merge     *)
(* distance                                                                *)
collidePairSquared(st, i, j) ==
    IF distSq(st.bodies[i].pos, st.bodies[j].pos)
         < MulDiv(st.bodies[i].radius + st.bodies[j].radius, 6, 10)
    THEN IF st.bodies[i].mass >= st.bodies[j].mass
         THEN merged(st, i, j, absorb(st.bodies[i], st.bodies[j]))
         ELSE merged(st, j, i, absorb(st.bodies[j], st.bodies[i]))
    ELSE st

(* the inner loop's body with ties going to the later body *)
collidePairStrict(st, i, j) ==
    IF dist(st.bodies[i].pos, st.bodies[j].pos)
         < MulDiv(st.bodies[i].radius + st.bodies[j].radius, 6, 10)
    THEN IF st.bodies[i].mass > st.bodies[j].mass
         THEN merged(st, i, j, absorb(st.bodies[i], st.bodies[j]))
         ELSE merged(st, j, i, absorb(st.bodies[j], st.bodies[i]))
    ELSE st

(* The body of the inner loop for the pair i < j, bodies[j] alive *)
collidePair(st, i, j) ==
    IF dist(st.bodies[i].pos, st.bodies[j].pos)
         < MulDiv(st.bodies[i].radius + st.bodies[j].radius, 6, 10)
    THEN IF st.bodies[i].mass >= st.bodies[j].mass
         THEN merged(st, i, j, absorb(st.bodies[i], st.bodies[j]))
         ELSE merged(st, j, i, absorb(st.bodies[j], st.bodies[i]))
    ELSE st

RECURSIVE collideInner(_, _, _)
collideInner(st, i, j) ==
    IF ~Computed(st) \/ j > Len(st.bodies) THEN st
    ELSE IF ~st.bodies[j].alive THEN collideInner(st, i, j + 1)
    ELSE collideInner(collidePair(st, i, j), i, j + 1)

RECURSIVE collideOuter(_, _)
collideOuter(st, i) ==
    IF ~Computed(st) \/ i > Len(st.bodies) THEN st
    ELSE IF ~st.bodies[i].alive THEN collideOuter(st, i + 1)
    ELSE collideOuter(collideInner(st, i, i + 1), i + 1)

(* the list left as the pass made it, dead bodies included *)
survivorsUnfiltered(st) == [bodies |-> st.bodies, log |-> st.log]

(* this.bodies = this.bodies.filter(b => b.alive) *)
survivors(st) == [bodies |-> SelectSeq(st.bodies, LAMBDA b : b.alive), log |-> st.log]

_resolveCollisions(bs) == survivors(collideOuter([bodies |-> bs, log |-> << >>], 1))

(* the step size without the clamp of the frame time *)
stepDtUnclamped(frameDt, timeScale) == frameDt * timeScale

(* dt of step(frameDt, timeScale) *)
stepDt(frameDt, timeScale) == Min(frameDt, MAX_FRAME_DT) * timeScale

(* body.recordTrail(); body.age++ for every body *)
recordFrame(bs) ==
    [k \in Indices(bs) |-> [recordTrail(bs[k]) EXCEPT !.age = bs[k].age + 1]]

(* the result of step(): the list and the log of the collision pass res,   *)
(* and the new clock                                                       *)
stepResult(res, el) == [bodies |-> res.bodies, log |-> res.log, elapsed |-> el]

(* step() with the step size dt *)
stepBy(bs, el, g, soft, nsub, dt) ==
    stepResult(_resolveCollisions(
                   recordFrame(substepLoop(bs, nsub, MulDiv(dt, 1, nsub), g, soft))),
               el + dt)

(* The part of step() after the pause check: the new body list, the log of *)
(* the collision pass and the new clock.                                   *)
step(bs, el, g, soft, nsub, frameDt, timeScale) ==
    stepBy(bs, el, g, soft, nsub, stepDt(frameDt, timeScale))

(* The four orbits of createDemoScene: radius in px and the cosine and    *)
(* sine of the angle (0, 0.7 pi, 1.3 pi, 0.3 pi) in millionths.           *)
DemoOrbits ==
    << [type |-> "planet", r |-> 120, cos |-> 1000000,  sin |-> 0],
       [type |-> "planet", r |-> 200, cos |-> -587785,  sin |-> 809017],
       [type |-> "planet", r |-> 310, cos |-> -587785,  sin |-> -809017],
       [type |-> "moon",   r |-> 420, cos |-> 587785,   sin |-> 809017] >>

demoBody(id, o, g) ==
    LET speed == orbitalSpeed(g, BODY_TYPES["star"].mass, o.r * LS)
    IN  Body(id, o.type,
             Vector2(MulDiv(o.cos, o.r * LS, 1000000), MulDiv(o.sin, o.r * LS, 1000000)),
             Vector2(MulDiv(-o.sin, speed, 1000000), MulDiv(o.cos, speed, 1000000)))

(* body.trail.slice(-val) *)
sliceLast(t, val) ==
    IF val = 0 \/ val >= Len(t) THEN t
    ELSE IF val > 0 THEN SubSeq(t, Len(t) - val + 1, Len(t))
    ELSE SubSeq(t, Min(-val, Len(t)) + 1, Len(t))

(* ---------------------------------------------------------------- bounds *)
MaxOps == 4

(* ---------------------------------------------------------------- inputs *)
(* the bodies a user places: a star, a planet inside its merge distance     *)
(* and a moon far from both, all at rest (addBody's velocity argument is    *)
(* << >> when omitted and <<v>> when given)                                 *)
BodyInputs ==
    { [type |-> "star",   pos |-> Vector2(0, 0),        vel |-> << >>],
      [type |-> "planet", pos |-> Vector2(5 * LS, 0),   vel |-> << >>],
      [type |-> "moon",   pos |-> Vector2(200 * LS, 0), vel |-> << >>] }
(* frame times in seconds: a 60 Hz frame, a stalled frame above the clamp,  *)
(* and a timestamp that went backwards                                      *)
FrameDeltas == {(16 * TS) \div 1000, (100 * TS) \div 1000, -((16 * TS) \div 1000)}
TimeScales == {DEFAULT_TIME_SCALE}
TrailValues == {1}
GravityValues == {4}
SubstepOptions == {1, 2, PHYSICS_SUBSTEPS}

(* ----------------------------------------------------------------- state *)
VARIABLES
    bodies,      \* sim.bodies
    G,           \* sim.G
    softening,   \* sim.softening
    substeps,    \* sim.substeps
    elapsed,     \* sim.elapsed
    paused,      \* sim.paused
    sliderTrail, \* value of the trail-length slider: the cap in force
    nextId,      \* identity of the next Body object
    merges,      \* the absorb calls of the last collision pass
    lastOp,      \* the last operation, its arguments and what it started from
    ops,         \* number of operations so far
    heap,        \* the Vector2 objects: heap[a] is the object at address a
    ref,         \* a body's references into the heap: pos, vel, trail
    recorded,    \* the value each trail entry had when it was recorded
    vecOp,       \* the last operation on the heap and the heap it started from
    handler,     \* the InputHandler: _dragging, _panning, _panLast, ...
    callback,    \* the last callback the InputHandler made
    moved        \* the point of the last touchmove of the drag under way, if any

simVars == <<bodies, G, softening, substeps, elapsed, paused, sliderTrail,
             nextId, merges, lastOp>>
heapVars == <<heap, ref, recorded, vecOp>>
inputVars == <<handler, callback, moved>>
vars == <<bodies, G, softening, substeps, elapsed, paused, sliderTrail,
          nextId, merges, lastOp, ops, heap, ref, recorded, vecOp,
          handler, callback, moved>>

(* a planet's position and velocity and a star's position, as objects *)
HeapInit ==
    /\ heap = << Vector2(3 * LS, 4 * LS), Vector2(0, 50 * LS), Vector2(0, 0) >>
    /\ ref = [pos |-> 1, vel |-> 2, other |-> 3, trail |-> << >>,
              maxTrail |-> MAX_TRAIL_LENGTH]
    /\ recorded = << >>
    /\ vecOp = [name |-> "new"]

(* new InputHandler(canvas, callbacks) *)
InputInit ==
    /\ handler = [_screenToWorld |-> FALSE, _dragging |-> FALSE, _panning |-> FALSE,
                  _panLast |-> [x |-> 0, y |-> 0], _dragStart |-> [x |-> 0, y |-> 0]]
    /\ callback = [name |-> "none", event |-> "none", start |-> Zero, end |-> Zero]
    /\ moved = << >>

(* new Simulation({substeps: s}) *)
Constructed(s) ==
    /\ bodies = << >>
    /\ G = PHYSICS_G
    /\ softening = PHYSICS_SOFTENING
    /\ substeps = s
    /\ elapsed = 0
    /\ paused = FALSE
    /\ sliderTrail = MAX_TRAIL_LENGTH
    /\ nextId = 1
    /\ merges = << >>
    /\ lastOp = [name |-> "new"]
    /\ ops = 0
    /\ HeapInit
    /\ InputInit

Init == \E s \in SubstepOptions : Constructed(s)

(* ------------------------------------------------------------ operations *)
(* what an operation started from, kept in lastOp *)
Before == [bodies |-> bodies, elapsed |-> elapsed, paused |-> paused,
           sliderTrail |-> sliderTrail, G |-> G, softening |-> softening,
           substeps |-> substeps]

(* new Body(type, ...) throws a TypeError: for a type without a preset     *)
(* PALETTES[type] is undefined and the constructor reads palette.length    *)
(* (for a name every object inherits, such as "constructor", colors is     *)
(* undefined and it reads colors.color)                                    *)
bodyThrows(type) == type \notin DOMAIN BODY_TYPES

(* the default of addBody's velocity parameter: velocity = Vector2.zero() *)
(* the default velocity whatever velocity is given *)
velocityDropped(velocity) == Zero

velocityOrZero(velocity) == IF velocity = << >> THEN Zero ELSE velocity[1]

(* addBody that gives a type without a preset the planet's preset *)
AddBodyDefaulting(type, position, velocity) ==
    /\ bodies' = Append(bodies,
                        Body(nextId, IF bodyThrows(type) THEN "planet" ELSE type,
                             position, velocityOrZero(velocity)))
    /\ nextId' = nextId + 1
    /\ lastOp' = [name |-> "addBody", type |-> type, position |-> position,
                  velocity |-> velocity, threw |-> FALSE, returned |-> nextId,
                  before |-> Before]
    /\ ops' = ops + 1
    /\ UNCHANGED <<G, softening, substeps, elapsed, paused, sliderTrail, merges>>

(* sim.addBody(type, position, velocity); returned is the identity of the  *)
(* body the call returns, 0 when it throws                                 *)
AddBody(type, position, velocity) ==
    /\ IF bodyThrows(type)
       THEN UNCHANGED <<bodies, nextId>>
       ELSE /\ bodies' = Append(bodies, Body(nextId, type, position,
                                             velocityOrZero(velocity)))
            /\ nextId' = nextId + 1
    /\ lastOp' = [name |-> "addBody", type |-> type, position |-> position,
                  velocity |-> velocity, threw |-> bodyThrows(type),
                  returned |-> IF bodyThrows(type) THEN 0 ELSE nextId,
                  before |-> Before]
    /\ ops' = ops + 1
    /\ UNCHANGED <<G, softening, substeps, elapsed, paused, sliderTrail, merges>>

(* clear() that empties the list and keeps the clock running *)
ClearKeepsClock ==
    /\ bodies' = << >>
    /\ lastOp' = [name |-> "clear", before |-> Before]
    /\ ops' = ops + 1
    /\ UNCHANGED <<G, softening, substeps, elapsed, paused, sliderTrail, nextId, merges>>

(* clear() that also puts G and the paused flag back to their defaults *)
ClearResetsTunables ==
    /\ bodies' = << >>
    /\ elapsed' = 0
    /\ G' = PHYSICS_G
    /\ paused' = FALSE
    /\ lastOp' = [name |-> "clear", before |-> Before]
    /\ ops' = ops + 1
    /\ UNCHANGED <<softening, substeps, sliderTrail, nextId, merges>>

(* sim.clear() *)
Clear ==
    /\ bodies' = << >>
    /\ elapsed' = 0
    /\ lastOp' = [name |-> "clear", before |-> Before]
    /\ ops' = ops + 1
    /\ UNCHANGED <<G, softening, substeps, paused, sliderTrail, nextId, merges>>

(* createDemoScene() without its call of clear() *)
CreateDemoSceneKeeping ==
    /\ bodies' = bodies \o <<Body(nextId, "star", Vector2(0, 0), Zero)>> \o
                  [k \in 1..Len(DemoOrbits) |-> demoBody(nextId + k, DemoOrbits[k], G)]
    /\ nextId' = nextId + 1 + Len(DemoOrbits)
    /\ lastOp' = [name |-> "createDemoScene", before |-> Before]
    /\ ops' = ops + 1
    /\ UNCHANGED <<G, softening, substeps, elapsed, paused, sliderTrail, merges>>

(* sim.createDemoScene() *)
CreateDemoScene ==
    /\ bodies' = <<Body(nextId, "star", Vector2(0, 0), Zero)>> \o
                  [k \in 1..Len(DemoOrbits) |-> demoBody(nextId + k, DemoOrbits[k], G)]
    /\ elapsed' = 0
    /\ nextId' = nextId + 1 + Len(DemoOrbits)
    /\ lastOp' = [name |-> "createDemoScene", before |-> Before]
    /\ ops' = ops + 1
    /\ UNCHANGED <<G, softening, substeps, paused, sliderTrail, merges>>

(* the engine takes the result r of step() *)
Stepped(r) ==
    /\ bodies' = r.bodies
    /\ elapsed' = r.elapsed
    /\ merges' = r.log

(* step() without the early return of a paused engine *)
StepIgnoringPause(frameDt, timeScale) ==
    /\ Stepped(step(bodies, elapsed, G, softening, substeps, frameDt, timeScale))
    /\ lastOp' = [name |-> "step", frameDt |-> frameDt, timeScale |-> timeScale,
                  before |-> Before]
    /\ ops' = ops + 1
    /\ UNCHANGED <<G, softening, substeps, paused, sliderTrail, nextId>>

(* sim.step(frameDt, timeScale) *)
Step(frameDt, timeScale) ==
    /\ IF paused
       THEN UNCHANGED <<bodies, elapsed, merges>>
       ELSE Stepped(step(bodies, elapsed, G, softening, substeps, frameDt, timeScale))
    /\ lastOp' = [name |-> "step", frameDt |-> frameDt, timeScale |-> timeScale,
                  before |-> Before]
    /\ ops' = ops + 1
    /\ UNCHANGED <<G, softening, substeps, paused, sliderTrail, nextId>>

(* the pause button of app.js *)
TogglePause ==
    /\ paused' = ~paused
    /\ lastOp' = [name |-> "pause"]
    /\ ops' = ops + 1
    /\ UNCHANGED <<bodies, G, softening, substeps, elapsed, sliderTrail, nextId, merges>>

(* the trail slider of app.js *)
SetTrail(val) ==
    /\ sliderTrail' = val
    /\ bodies' = [k \in Indices(bodies) |->
                     [bodies[k] EXCEPT !.maxTrail = val,
                                       !.trail = IF Len(@) > val THEN sliceLast(@, val)
                                                                 ELSE @]]
    /\ lastOp' = [name |-> "trail", val |-> val, before |-> Before]
    /\ ops' = ops + 1
    /\ UNCHANGED <<G, softening, substeps, elapsed, paused, nextId, merges>>

(* the gravity slider of app.js *)
SetGravity(val) ==
    /\ G' = val * 100
    /\ lastOp' = [name |-> "gravity", val |-> val]
    /\ ops' = ops + 1
    /\ UNCHANGED <<bodies, softening, substeps, elapsed, paused, sliderTrail, nextId, merges>>

(* sim.orbitalSpeed(centralMass, distance); returned is the value of the   *)
(* call                                                                    *)
OrbitalSpeed(centralMass, distance) ==
    /\ lastOp' = [name |-> "orbitalSpeed", centralMass |-> centralMass,
                  distance |-> distance,
                  returned |-> orbitalSpeed(G, centralMass, distance),
                  before |-> Before]
    /\ ops' = ops + 1
    /\ UNCHANGED <<bodies, G, softening, substeps, elapsed, paused, sliderTrail,
                   nextId, merges>>

Next ==
    \/ /\ ops < MaxOps
       /\ \E b \in BodyInputs : AddBody(b.type, b.pos, b.vel)
       /\ UNCHANGED <<heapVars, inputVars>>
    \/ /\ ops < MaxOps
       /\ Clear
       /\ UNCHANGED <<heapVars, inputVars>>
    \/ /\ ops < MaxOps
       /\ CreateDemoScene
       /\ UNCHANGED <<heapVars, inputVars>>
    \/ /\ ops < MaxOps
       /\ \E frameDt \in FrameDeltas, timeScale \in TimeScales :
            Step(frameDt, timeScale)
       /\ UNCHANGED <<heapVars, inputVars>>
    \/ /\ ops < MaxOps
       /\ TogglePause
       /\ UNCHANGED <<heapVars, inputVars>>
    \/ /\ ops < MaxOps
       /\ \E val \in TrailValues : SetTrail(val)
       /\ UNCHANGED <<heapVars, inputVars>>
    \/ /\ ops < MaxOps
       /\ \E val \in GravityValues : SetGravity(val)
       /\ UNCHANGED <<heapVars, inputVars>>

Spec == Init /\ [][Next]_vars

(* ------------------------------------------------------- the engine's API *)
(* The calls of the engine with the arguments a caller may pass: a type     *)
(* without a preset, a velocity given or omitted, and orbitalSpeed.         *)
ApiBodyInputs ==
    { [type |-> "star",   pos |-> Vector2(0, 0), vel |-> << >>],
      [type |-> "planet", pos |-> Vector2(300 * LS, 0),
                          vel |-> <<Vector2(0, 89443)>>],
      [type |-> "comet",  pos |-> Vector2(5 * LS, 0), vel |-> << >>] }
ApiFrameDeltas == {(16 * TS) \div 1000}
OrbitInputs == { [centralMass |-> 3000, distance |-> 200 * LS] }

ApiNext ==
    \/ /\ ops < MaxOps
       /\ \E b \in ApiBodyInputs : AddBody(b.type, b.pos, b.vel)
       /\ UNCHANGED <<heapVars, inputVars>>
    \/ /\ ops < MaxOps
       /\ Clear
       /\ UNCHANGED <<heapVars, inputVars>>
    \/ /\ ops < MaxOps
       /\ CreateDemoScene
       /\ UNCHANGED <<heapVars, inputVars>>
    \/ /\ ops < MaxOps
       /\ \E frameDt \in ApiFrameDeltas, timeScale \in TimeScales :
            Step(frameDt, timeScale)
       /\ UNCHANGED <<heapVars, inputVars>>
    \/ /\ ops < MaxOps
       /\ TogglePause
       /\ UNCHANGED <<heapVars, inputVars>>
    \/ /\ ops < MaxOps
       /\ \E val \in GravityValues : SetGravity(val)
       /\ UNCHANGED <<heapVars, inputVars>>
    \/ /\ ops < MaxOps
       /\ \E o \in OrbitInputs : OrbitalSpeed(o.centralMass, o.distance)
       /\ UNCHANGED <<heapVars, inputVars>>

ApiSpec == Init /\ [][ApiNext]_vars

(* ------------------------------------------ Vector2 objects and references *)
(* JavaScript holds a Vector2 by reference: body.pos and the entries of     *)
(* body.trail are addresses of objects, and an object changed in place is   *)
(* changed for every holder.  Each operator below takes the heap and the    *)
(* addresses of `this` and of the argument, and gives <<heap, address>>:    *)
(* the heap after the call and the address of the object returned.          *)
new(h, v) == << Append(h, v), Len(h) + 1 >>

(* an add that stores the sum in `this` and returns `this` *)
addInPlace(h, this, v) == << [h EXCEPT ![this] = add(h[this], h[v])], this >>

addAt(h, this, v) == new(h, add(h[this], h[v]))
subAt(h, this, v) == new(h, sub(h[this], h[v]))
scaleAt(h, this, s) == new(h, scale(h[this], s))
normalizedAt(h, this) == new(h, normalized(h[this]))

(* b.pos = b.pos.add(b.vel.scale(dt)), from the heap after vel.scale(dt) *)
driftFrom(scaled, pos) == addAt(scaled[1], pos, scaled[2])
driftAt(h, pos, vel, dt) == driftFrom(scaleAt(h, vel, dt), pos)

(* this.pos = this.pos.scale(r).add(other.pos.scale(1 - r)) *)
absorbSum(mine, theirs) == addAt(theirs[1], mine[2], theirs[2])
absorbOther(mine, other, r) == absorbSum(mine, scaleAt(mine[1], other, TS - r))
absorbAt(h, pos, other, r) == absorbOther(scaleAt(h, pos, r), other, r)

(* this.trail.push(this.pos) and the shift, on a sequence of addresses or   *)
(* of values                                                                *)
pushed(trail, entry, maxTrail) ==
    IF Len(trail) + 1 > maxTrail THEN Tail(Append(trail, entry))
                                 ELSE Append(trail, entry)

MaxVecOps == 4
VecScales == {2 * TS, TS \div 2}
VecDeltas == {(16 * TS) \div 1000}
AbsorbRatios == {(3 * TS) \div 4}
Vec3Inputs == { Zero3, Vector3(3 * LS, 0, 4 * LS) }
(* the objects the body holds, as `this` and as argument *)
Held == {ref.pos, ref.vel, ref.other}

(* a call of a Vector2 method by any holder of the objects *)
Called(name, this, arg, res) ==
    /\ heap' = res[1]
    /\ vecOp' = [name |-> name, this |-> this, arg |-> arg, result |-> res[2],
                 before |-> heap]
    /\ ops' = ops + 1
    /\ UNCHANGED <<ref, recorded>>

VecAdd(this, v) == Called("add", this, v, addAt(heap, this, v))
VecSub(this, v) == Called("sub", this, v, subAt(heap, this, v))
VecScale(this, s) == Called("scale", this, s, scaleAt(heap, this, s))
VecNormalized(this) == Called("normalized", this, 0, normalizedAt(heap, this))

(* Vector3.normalized of a vector the caller has just made; prev is the    *)
(* operation before it                                                      *)
VecNormalized3(v) ==
    /\ vecOp' = [name |-> "normalized3", this |-> v, result |-> normalized3(v),
                 before |-> heap, prev |-> vecOp]
    /\ ops' = ops + 1
    /\ UNCHANGED <<heap, ref, recorded>>

(* the body's position replaced by the object a method returned *)
Moved(name, res) ==
    /\ heap' = res[1]
    /\ ref' = [ref EXCEPT !.pos = res[2]]
    /\ vecOp' = [name |-> name, result |-> res[2], before |-> heap]
    /\ ops' = ops + 1
    /\ UNCHANGED recorded

(* the position update of _integrateVerlet *)
Drift(dt) == Moved("drift", driftAt(heap, ref.pos, ref.vel, dt))

(* the position update of absorb *)
AbsorbPos(r) == Moved("absorb", absorbAt(heap, ref.pos, ref.other, r))

RecordTrail ==
    /\ ref' = [ref EXCEPT !.trail = pushed(ref.trail, ref.pos, ref.maxTrail)]
    /\ recorded' = pushed(recorded, heap[ref.pos], ref.maxTrail)
    /\ vecOp' = [name |-> "recordTrail", before |-> heap]
    /\ ops' = ops + 1
    /\ UNCHANGED heap

VecNext ==
    \/ /\ ops < MaxVecOps
       /\ \E this \in Held, v \in {ref.pos} : VecAdd(this, v)
       /\ UNCHANGED <<simVars, inputVars>>
    \/ /\ ops < MaxVecOps
       /\ \E this \in Held, v \in {ref.pos} : VecSub(this, v)
       /\ UNCHANGED <<simVars, inputVars>>
    \/ /\ ops < MaxVecOps
       /\ \E this \in {ref.pos}, s \in VecScales : VecScale(this, s)
       /\ UNCHANGED <<simVars, inputVars>>
    \/ /\ ops < MaxVecOps
       /\ \E this \in {ref.pos, ref.other} : VecNormalized(this)
       /\ UNCHANGED <<simVars, inputVars>>
    \/ /\ ops < MaxVecOps
       /\ \E v \in Vec3Inputs : VecNormalized3(v)
       /\ UNCHANGED <<simVars, inputVars>>
    \/ /\ ops < MaxVecOps
       /\ \E dt \in VecDeltas : Drift(dt)
       /\ UNCHANGED <<simVars, inputVars>>
    \/ /\ ops < MaxVecOps
       /\ \E r \in AbsorbRatios : AbsorbPos(r)
       /\ UNCHANGED <<simVars, inputVars>>
    \/ /\ ops < MaxVecOps
       /\ RecordTrail
       /\ UNCHANGED <<simVars, inputVars>>

VecSpec == Constructed(PHYSICS_SUBSTEPS) /\ [][VecNext]_vars

(* ------------------------------------------------------ a circular orbit *)
(* The scene of the orbital stability test: an engine with 8 substeps, a    *)
(* star at the origin, a planet at radius r with the speed orbitalSpeed     *)
(* gives for the star's mass, then frames of 16 ms at time scale 1.         *)
OrbitSubsteps == 8
OrbitFrames == 500
OrbitRadius == 300 * LS
OrbitFrameDt == (16 * TS) \div 1000
(* the calls that set the scene up *)
OrbitSetup == Len(<<"addBody", "orbitalSpeed", "addBody">>)

OrbitNext ==
    \/ /\ ops = 0
       /\ AddBody("star", Vector2(0, 0), << >>)
       /\ UNCHANGED <<heapVars, inputVars>>
    \/ /\ ops = 1
       /\ OrbitalSpeed(BODY_TYPES.star.mass, OrbitRadius)
       /\ UNCHANGED <<heapVars, inputVars>>
    \/ /\ ops = 2
       /\ AddBody("planet", Vector2(OrbitRadius, 0),
                  << Vector2(0, lastOp.returned) >>)
       /\ UNCHANGED <<heapVars, inputVars>>
    \/ /\ ops >= OrbitSetup
       /\ ops < OrbitSetup + OrbitFrames
       /\ Step(OrbitFrameDt, 1)
       /\ UNCHANGED <<heapVars, inputVars>>

OrbitSpec == Constructed(OrbitSubsteps) /\ [][OrbitNext]_vars

(* -------------------------------------------------------- crowded scenes *)
(* A star and two planets near it: the nearer planet within merge distance  *)
(* of the star, the farther one just outside it.                            *)
MergeBodyInputs ==
    { [type |-> "star",   pos |-> Vector2(0, 0), vel |-> << >>],
      [type |-> "planet", pos |-> Vector2(10 * LS, 0), vel |-> << >>],
      [type |-> "planet", pos |-> Vector2((195 * LS) \div 10, 0), vel |-> << >>] }

MergeNext ==
    \/ /\ ops < MaxOps
       /\ \E b \in MergeBodyInputs : AddBody(b.type, b.pos, b.vel)
       /\ UNCHANGED <<heapVars, inputVars>>
    \/ /\ ops < MaxOps
       /\ \E frameDt \in ApiFrameDeltas, timeScale \in TimeScales :
            Step(frameDt, timeScale)
       /\ UNCHANGED <<heapVars, inputVars>>

MergeSpec == Init /\ [][MergeNext]_vars

(* ------------------------------------------------------ growing by merges *)
(* Planets and moons added at one place: enough of them merge into a body   *)
(* of the mass at which a body becomes a star.                              *)
MaxPromoteOps == 7
PromoteBodyInputs ==
    { [type |-> "planet", pos |-> Vector2(5 * LS, 0), vel |-> << >>],
      [type |-> "moon",   pos |-> Vector2(5 * LS, 0), vel |-> << >>] }

PromoteNext ==
    \/ /\ ops < MaxPromoteOps
       /\ \E b \in PromoteBodyInputs : AddBody(b.type, b.pos, b.vel)
       /\ UNCHANGED <<heapVars, inputVars>>
    \/ /\ ops < MaxPromoteOps
       /\ \E frameDt \in ApiFrameDeltas, timeScale \in TimeScales :
            Step(frameDt, timeScale)
       /\ UNCHANGED <<heapVars, inputVars>>

PromoteSpec == Init /\ [][PromoteNext]_vars

(* ------------------------------------------------------------ the pointer *)
(* InputHandler turns mouse and touch events on the canvas into callbacks.  *)
(* Screen points are in pixels, world points in units of 1/LS.              *)
Screen == [width |-> 800, height |-> 600]
Camera == [x |-> 0, y |-> 0, zoom |-> TS, width |-> Screen.width,
           height |-> Screen.height]

(* Camera.screenToWorld *)
screenToWorld(cam, sx, sy) ==
    Vector2(MulDiv(sx * LS - (cam.width * LS) \div 2, TS, cam.zoom) + cam.x,
            MulDiv(sy * LS - (cam.height * LS) \div 2, TS, cam.zoom) + cam.y)

MaxInputOps == 5
ScreenPoints == { [x |-> 100, y |-> 100], [x |-> 400, y |-> 300] }
Buttons == {0, 2}

Calls(name, event, start, end) ==
    callback' = [name |-> name, event |-> event, start |-> start, end |-> end]

(* input.setScreenToWorld(fn) *)
SetScreenToWorld ==
    /\ handler' = [handler EXCEPT !._screenToWorld = TRUE]
    /\ ops' = ops + 1
    /\ UNCHANGED <<callback, moved>>

(* _startDrag(sx, sy) from the event named *)
StartDrag(event, p) ==
    /\ handler' = [handler EXCEPT !._dragging = TRUE, !._dragStart = p, !._panLast = p]
    /\ IF handler._screenToWorld
       THEN Calls("onDragStart", event, screenToWorld(Camera, p.x, p.y),
                  screenToWorld(Camera, p.x, p.y))
       ELSE UNCHANGED callback

(* _endDrag(sx, sy) from the event named *)
EndDrag(event, p) ==
    /\ handler' = [handler EXCEPT !._dragging = FALSE]
    /\ IF handler._screenToWorld
       THEN Calls("onDragEnd", event,
                  screenToWorld(Camera, handler._dragStart.x, handler._dragStart.y),
                  screenToWorld(Camera, p.x, p.y))
       ELSE UNCHANGED callback

TouchStart(p) ==
    /\ StartDrag("touchstart", p)
    /\ moved' = << >>
    /\ ops' = ops + 1

TouchMove(p) ==
    /\ IF handler._dragging
       THEN /\ Calls("onDragMove", "touchmove", Zero, Zero)
            /\ moved' = << p >>
       ELSE UNCHANGED <<callback, moved>>
    /\ ops' = ops + 1
    /\ UNCHANGED handler

TouchEnd ==
    /\ IF handler._dragging
       THEN EndDrag("touchend", handler._panLast)
       ELSE UNCHANGED <<handler, callback>>
    /\ ops' = ops + 1
    /\ UNCHANGED moved

MouseDown(button, p) ==
    /\ IF button = 0
       THEN StartDrag("mousedown", p)
       ELSE /\ handler' = [handler EXCEPT !._panning = TRUE, !._panLast = p]
            /\ UNCHANGED callback
    /\ ops' = ops + 1
    /\ UNCHANGED moved

(* mousemove: onDragMove while dragging, then onPan while panning *)
MouseMove(p) ==
    /\ IF handler._panning
       THEN /\ handler' = [handler EXCEPT !._panLast = p]
            /\ Calls("onPan", "mousemove", Zero, Zero)
       ELSE /\ UNCHANGED handler
            /\ IF handler._dragging
               THEN Calls("onDragMove", "mousemove", Zero, Zero)
               ELSE UNCHANGED callback
    /\ ops' = ops + 1
    /\ UNCHANGED moved

MouseUp(button, p) ==
    /\ IF button = 0
       THEN IF handler._dragging
            THEN EndDrag("mouseup", p)
            ELSE UNCHANGED <<handler, callback>>
       ELSE /\ handler' = [handler EXCEPT !._panning = FALSE]
            /\ UNCHANGED callback
    /\ ops' = ops + 1
    /\ UNCHANGED moved

InputNext ==
    \/ /\ ops < MaxInputOps
       /\ SetScreenToWorld
       /\ UNCHANGED <<simVars, heapVars>>
    \/ /\ ops < MaxInputOps
       /\ \E p \in ScreenPoints : TouchStart(p)
       /\ UNCHANGED <<simVars, heapVars>>
    \/ /\ ops < MaxInputOps
       /\ \E p \in ScreenPoints : TouchMove(p)
       /\ UNCHANGED <<simVars, heapVars>>
    \/ /\ ops < MaxInputOps
       /\ TouchEnd
       /\ UNCHANGED <<simVars, heapVars>>
    \/ /\ ops < MaxInputOps
       /\ \E button \in Buttons, p \in ScreenPoints : MouseDown(button, p)
       /\ UNCHANGED <<simVars, heapVars>>
    \/ /\ ops < MaxInputOps
       /\ \E p \in ScreenPoints : MouseMove(p)
       /\ UNCHANGED <<simVars, heapVars>>
    \/ /\ ops < MaxInputOps
       /\ \E button \in Buttons, p \in ScreenPoints : MouseUp(button, p)
       /\ UNCHANGED <<simVars, heapVars>>

InputSpec == Constructed(PHYSICS_SUBSTEPS) /\ [][InputNext]_vars

(* ------------------------------------------------------------ properties *)
(* C1: a step taken while the engine is paused changes nothing: the list   *)
(* of bodies with every field of every body, and the elapsed time, are as   *)
(* they were before the step, for every frame time and time scale.          *)
C1_PausedStepIsNoOp ==
    lastOp.name = "step" /\ lastOp.before.paused
        => bodies = lastOp.before.bodies /\ elapsed = lastOp.before.elapsed

(* a paused step of an engine that holds a body and has a running clock *)
C1_Witness ==
    /\ lastOp.name = "step"
    /\ lastOp.before.paused
    /\ Len(bodies) > 0
    /\ elapsed > 0

(* C2: an unpaused step advances the elapsed time by the clamped frame      *)
(* time times the time scale, min(frameDelta, MAX_FRAME_DT) * timeScale,    *)
(* whatever the number of bodies and whether or not bodies merged.          *)
C2_ElapsedAdvancesByClampedDt ==
    lastOp.name = "step" /\ ~lastOp.before.paused
        => elapsed = lastOp.before.elapsed
                       + Min(lastOp.frameDt, MAX_FRAME_DT) * lastOp.timeScale

(* an unpaused step with a frame time above the clamp, in which bodies      *)
(* merged, of an engine whose clock was already running                     *)
C2_Witness ==
    /\ lastOp.name = "step"
    /\ ~lastOp.before.paused
    /\ lastOp.frameDt > MAX_FRAME_DT
    /\ lastOp.before.elapsed > 0
    /\ Len(merges) > 0

(* C3: the elapsed time is never negative, in every state reached by any    *)
(* sequence of addBody, step, clear, createDemoScene and pause toggles.     *)
C3_ElapsedNeverNegative == elapsed >= 0

(* C4: after any sequence of addBody and step calls, clear() leaves the     *)
(* engine with no body and an elapsed time of zero.                         *)
C4_ClearEmptiesAndResets ==
    lastOp.name = "clear" => Len(bodies) = 0 /\ elapsed = 0

(* clear() of an engine that held bodies and had a running clock *)
C4_Witness ==
    /\ lastOp.name = "clear"
    /\ Len(lastOp.before.bodies) > 0
    /\ lastOp.before.elapsed > 0

(* C5: when two bodies merge, the mass of the surviving body is the sum of  *)
(* the masses the two had immediately before the merge.                     *)
C5_MergedMassIsSum ==
    \A k \in 1..Len(merges) :
        merges[k].afterMass = merges[k].bigMass + merges[k].smallMass

(* a collision pass in which a live body absorbed a live body *)
C5_Witness ==
    /\ lastOp.name = "step"
    /\ Len(merges) > 0
    /\ merges[1].bigAlive /\ merges[1].smallAlive
    /\ merges[1].smallMass > 0

RECURSIVE TotalMass(_)
TotalMass(bs) == IF bs = << >> THEN 0 ELSE Head(bs).mass + TotalMass(Tail(bs))

(* C6: a step conserves the total mass: the masses of the bodies in the     *)
(* list after the step add up to what the masses of the bodies in the list  *)
(* before the step added up to, for any number of bodies and merges.        *)
C6_StepConservesTotalMass ==
    lastOp.name = "step" /\ ~lastOp.before.paused
        => TotalMass(bodies) = TotalMass(lastOp.before.bodies)

(* C7: within one collision pass a body that was absorbed takes part in no  *)
(* later merge of that pass, neither as the absorber nor as the absorbed.   *)
C7_DeadBodiesTakeNoPart ==
    \A k \in 1..Len(merges) : merges[k].bigAlive /\ merges[k].smallAlive

(* two bodies as addBody leaves them: at rest, never stepped *)
FreshPair(bs) ==
    /\ Len(bs) = 2
    /\ \A k \in 1..2 : bs[k].vel = Zero /\ bs[k].acc = Zero /\ bs[k].age = 0

(* the centres of a and b are closer than 0.6 * (a.radius + b.radius) *)
WithinMergeDistance(a, b) ==
    10 * dist(a.pos, b.pos) < 6 * (a.radius + b.radius)

(* the two bodies bs where the substeps of the last step left them *)
AfterSubsteps(bs) ==
    substepLoop(bs, substeps,
                MulDiv(stepDt(lastOp.frameDt, lastOp.timeScale), 1, substeps),
                G, softening)

(* C8 as stated: two bodies added within merge distance of each other, at   *)
(* rest, are one body after one unpaused step.                              *)
C8_CloseBodiesMerge ==
    /\ lastOp.name = "step"
    /\ ~lastOp.before.paused
    /\ FreshPair(lastOp.before.bodies)
    /\ WithinMergeDistance(lastOp.before.bodies[1], lastOp.before.bodies[2])
    => Len(bodies) = 1

(* C8, amended: two bodies added within merge distance of each other, at    *)
(* rest, are one body after one unpaused step if the substeps of that step  *)
(* leave them within merge distance, which is where the collision pass      *)
(* finds them.                                                              *)
C8_CloseBodiesMergeIfStillClose ==
    /\ lastOp.name = "step"
    /\ ~lastOp.before.paused
    /\ FreshPair(lastOp.before.bodies)
    /\ WithinMergeDistance(lastOp.before.bodies[1], lastOp.before.bodies[2])
    /\ WithinMergeDistance(AfterSubsteps(lastOp.before.bodies)[1],
                           AfterSubsteps(lastOp.before.bodies)[2])
    => Len(bodies) = 1

(* a step that merged two bodies added within merge distance, after        *)
(* substeps that moved them                                                 *)
C8_Witness ==
    /\ lastOp.name = "step"
    /\ ~lastOp.before.paused
    /\ FreshPair(lastOp.before.bodies)
    /\ WithinMergeDistance(lastOp.before.bodies[1], lastOp.before.bodies[2])
    /\ AfterSubsteps(lastOp.before.bodies)[2].pos # lastOp.before.bodies[2].pos
    /\ Len(bodies) = 1

(* C9: two bodies at rest at distinct positions are strictly closer after   *)
(* one unpaused step in which they do not collide, for every substeps       *)
(* count and every positive frame time, time scale and G.                   *)
C9_BodiesAtRestAttract ==
    /\ lastOp.name = "step"
    /\ ~lastOp.before.paused
    /\ lastOp.frameDt > 0 /\ lastOp.timeScale > 0 /\ G > 0
    /\ Len(lastOp.before.bodies) = 2
    /\ \A k \in 1..2 : lastOp.before.bodies[k].vel = Zero
    /\ lastOp.before.bodies[1].pos # lastOp.before.bodies[2].pos
    /\ Len(merges) = 0
    => /\ Len(bodies) = 2
       /\ dist(bodies[1].pos, bodies[2].pos)
            < dist(lastOp.before.bodies[1].pos, lastOp.before.bodies[2].pos)

(* C10: the trail of every body is at most as long as the cap in force,     *)
(* the default or the last value of the trail slider, for bodies created    *)
(* before the cap changed and for bodies added after.                       *)
C10_TrailWithinCap ==
    \A k \in Indices(bodies) : Len(bodies[k].trail) <= sliderTrail

(* C11: addBody with a type that is not a known preset fails with an error  *)
(* and creates no body: the list of bodies and the elapsed time are as      *)
(* before the call.                                                         *)
C11_UnknownTypeFails ==
    lastOp.name = "addBody" /\ lastOp.type \notin Types
        => /\ lastOp.threw
           /\ bodies = lastOp.before.bodies
           /\ elapsed = lastOp.before.elapsed

(* addBody with an unknown type on an engine that holds bodies and has a    *)
(* running clock                                                            *)
C11_Witness ==
    /\ lastOp.name = "addBody"
    /\ lastOp.type \notin Types
    /\ Len(bodies) > 0
    /\ elapsed > 0

(* C12: createDemoScene(), whatever the bodies, the elapsed time and the    *)
(* paused flag before the call, leaves exactly 5 bodies and an elapsed      *)
(* time of 0, and the first body is a star at the origin.                   *)
C12_DemoSceneHasFiveBodies ==
    lastOp.name = "createDemoScene"
        => /\ Len(bodies) = 5
           /\ elapsed = 0
           /\ bodies[1].type = "star"
           /\ bodies[1].pos = Vector2(0, 0)

(* createDemoScene() on a paused engine that held bodies and had a running  *)
(* clock                                                                    *)
C12_Witness ==
    /\ lastOp.name = "createDemoScene"
    /\ Len(lastOp.before.bodies) > 0
    /\ lastOp.before.elapsed > 0
    /\ lastOp.before.paused

(* C13: addBody with a known type appends exactly one body at the end of    *)
(* the list and returns it; the body is alive, has the preset mass and      *)
(* radius of its type, the given position and velocity (zero velocity when  *)
(* omitted), zero acceleration, age 0 and an empty trail; the bodies        *)
(* already in the list and the elapsed time are unchanged, paused or not.   *)
C13_AddBodyAppendsOne ==
    lastOp.name = "addBody" /\ lastOp.type \in Types
        => /\ ~lastOp.threw
           /\ Len(bodies) = Len(lastOp.before.bodies) + 1
           /\ SubSeq(bodies, 1, Len(bodies) - 1) = lastOp.before.bodies
           /\ elapsed = lastOp.before.elapsed
           /\ paused = lastOp.before.paused
           /\ bodies[Len(bodies)].id = lastOp.returned
           /\ \A k \in Indices(lastOp.before.bodies) :
                  lastOp.before.bodies[k].id # lastOp.returned
           /\ bodies[Len(bodies)].alive
           /\ bodies[Len(bodies)].type = lastOp.type
           /\ bodies[Len(bodies)].mass = BODY_TYPES[lastOp.type].mass
           /\ bodies[Len(bodies)].radius = BODY_TYPES[lastOp.type].radius
           /\ bodies[Len(bodies)].pos = lastOp.position
           /\ bodies[Len(bodies)].vel = IF lastOp.velocity = << >> THEN Zero
                                        ELSE lastOp.velocity[1]
           /\ bodies[Len(bodies)].acc = Zero
           /\ bodies[Len(bodies)].age = 0
           /\ bodies[Len(bodies)].trail = << >>

(* addBody with a velocity on a paused engine that holds a body *)
C13_Witness ==
    /\ lastOp.name = "addBody"
    /\ lastOp.type \in Types
    /\ lastOp.velocity # << >>
    /\ lastOp.velocity[1] # Zero
    /\ lastOp.before.paused
    /\ Len(lastOp.before.bodies) > 0

(* C14: clear() changes only the list of bodies and the elapsed time: G,    *)
(* softening, substeps and the paused flag keep their values.               *)
C14_ClearKeepsTunables ==
    lastOp.name = "clear"
        => /\ G = lastOp.before.G
           /\ softening = lastOp.before.softening
           /\ substeps = lastOp.before.substeps
           /\ paused = lastOp.before.paused

(* clear() of a paused engine that held a body and whose G was changed *)
C14_Witness ==
    /\ lastOp.name = "clear"
    /\ Len(lastOp.before.bodies) > 0
    /\ lastOp.before.paused
    /\ lastOp.before.G # PHYSICS_G

(* the bodies of the list that were in the list before the last operation,  *)
(* as pairs <<index now, index before>>                                     *)
Kept ==
    IF "before" \in DOMAIN lastOp
    THEN { p \in Indices(bodies) \X Indices(lastOp.before.bodies) :
             bodies[p[1]].id = lastOp.before.bodies[p[2]].id }
    ELSE {}

(* C15: every body in the list has mass > 0 and radius > 0, and over its    *)
(* lifetime the mass and radius of a body never decrease: they change only  *)
(* by growing when the body absorbs another.                                *)
C15_MassAndRadiusPositiveAndGrowing ==
    /\ \A k \in Indices(bodies) : bodies[k].mass > 0 /\ bodies[k].radius > 0
    /\ \A p \in Kept :
          /\ bodies[p[1]].mass >= lastOp.before.bodies[p[2]].mass
          /\ bodies[p[1]].radius >= lastOp.before.bodies[p[2]].radius
          /\ (\/ bodies[p[1]].mass # lastOp.before.bodies[p[2]].mass
              \/ bodies[p[1]].radius # lastOp.before.bodies[p[2]].radius)
             => /\ lastOp.name = "step"
                /\ \E k \in 1..Len(merges) : merges[k].big = bodies[p[1]].id

(* a step in which a body of the list grew in mass and radius *)
C15_Witness ==
    /\ lastOp.name = "step"
    /\ \E p \in Kept :
          /\ bodies[p[1]].mass > lastOp.before.bodies[p[2]].mass
          /\ bodies[p[1]].radius > lastOp.before.bodies[p[2]].radius

(* C16: add, sub, scale and normalized never change the components of the  *)
(* vector they are called on or of their argument, and return a new         *)
(* instance; so a position stored in a body's trail keeps the value it had  *)
(* when it was recorded for as long as it stays in the trail, whatever      *)
(* steps and merges follow.                                                 *)
C16_VectorsNeverChange ==
    /\ "before" \in DOMAIN vecOp =>
          \A a \in DOMAIN vecOp.before : heap[a] = vecOp.before[a]
    /\ vecOp.name \in {"add", "sub", "scale", "normalized"} =>
          /\ vecOp.result \in DOMAIN heap
          /\ vecOp.result \notin DOMAIN vecOp.before
    /\ Len(recorded) = Len(ref.trail)
    /\ \A k \in DOMAIN ref.trail : heap[ref.trail[k]] = recorded[k]

(* the body has moved twice since its first trail entry, by a drift and by  *)
(* an absorb, and holds two recorded positions                              *)
C16_Witness ==
    /\ vecOp.name = "absorb"
    /\ Len(ref.trail) = 2
    /\ ref.trail[1] # ref.trail[2]
    /\ ref.pos \notin {ref.trail[1], ref.trail[2]}
    /\ heap[ref.pos] # heap[ref.trail[2]]

(* what normalized gave for a vector of magnitude zero, in 2D and in 3D *)
ZeroStaysZero(op) ==
    /\ (op.name = "normalized" /\ mag(op.before[op.this]) = 0) =>
          heap[op.result] = Zero
    /\ (op.name = "normalized3" /\ mag3(op.this) = 0) => op.result = Zero3

(* C19: normalized on a vector whose magnitude is exactly zero returns the  *)
(* zero vector, with no error and no NaN component, in 2D and in 3D.        *)
C19_NormalizedZeroIsZero == ZeroStaysZero(vecOp)

(* a 2D and then a 3D zero vector have been normalized *)
C19_Witness ==
    /\ vecOp.name = "normalized3"
    /\ vecOp.this = Zero3
    /\ vecOp.result = Zero3
    /\ vecOp.prev.name = "normalized"
    /\ vecOp.prev.before[vecOp.prev.this] = Zero
    /\ heap[vecOp.prev.result] = Zero

(* v, in tenths, is the square root of g * m / r rounded down to a tenth:   *)
(* v^2 <= g * m / r < (v + 1/10)^2, with r in whole units                   *)
IsRootInTenths(v, g, m, r) ==
    /\ v * v * r <= 100 * g * m
    /\ 100 * g * m < (v + 1) * (v + 1) * r

(* C18: orbitalSpeed(M, r) returns sqrt(G * M / r) for the engine's current *)
(* G, the default 800 or the value last assigned, and changes no state of   *)
(* the engine: bodies, elapsed, paused and the tunables stay as they were.  *)
C18_OrbitalSpeedIsRootOfGMOverR ==
    lastOp.name = "orbitalSpeed" =>
        /\ IsRootInTenths(lastOp.returned \div (LS \div 10), G,
                          lastOp.centralMass, lastOp.distance \div LS)
        /\ Before = lastOp.before

(* orbitalSpeed called on an engine with bodies after G was assigned *)
C18_Witness ==
    /\ lastOp.name = "orbitalSpeed"
    /\ G # PHYSICS_G
    /\ bodies # << >>
    /\ lastOp.returned > 0

(* C17: a planet placed at radius r from a star with the tangential speed   *)
(* orbitalSpeed(M, r) is, after 500 unpaused steps of 0.016 s with 8        *)
(* substeps, still a separate body, at a distance from the centre strictly  *)
(* between 0.2 r and 2 r.                                                   *)
C17_OrbitStaysBound ==
    ops = OrbitSetup + OrbitFrames =>
        /\ Len(bodies) = 2
        /\ bodies[2].type = "planet"
        /\ bodies[2].mass = BODY_TYPES.planet.mass
        /\ 10 * mag(bodies[2].pos) > 2 * OrbitRadius
        /\ mag(bodies[2].pos) < 2 * OrbitRadius

(* the planet after the 500 frames, away from where it started *)
C17_Witness ==
    /\ ops = OrbitSetup + OrbitFrames
    /\ lastOp.name = "step"
    /\ ~paused
    /\ Len(bodies) = 2
    /\ bodies[2].age = OrbitFrames
    /\ bodies[2].pos.x < 0

(* the body with this id absorbed another in the last collision pass *)
Absorbed(id) == \E e \in 1..Len(merges) : merges[e].big = id

(* C20: multi-way merges complete within one collision pass: a body that    *)
(* absorbed another during the pass and, grown and moved, overlaps a live   *)
(* body merges with it in that same pass, also when the pair was checked    *)
(* earlier in the pass; so after an unpaused step no body of the list that  *)
(* absorbed another in its pass is within merge distance of another body    *)
(* of the list.                                                             *)
C20_MergesCompleteInOnePass ==
    (lastOp.name = "step" /\ ~lastOp.before.paused) =>
        \A k, l \in Indices(bodies) :
            (k # l /\ Absorbed(bodies[k].id)) =>
                ~WithinMergeDistance(bodies[k], bodies[l])

(* the accelerations of the list bs are the ones _computeAccelerations      *)
(* gives for bs and the tunables of the state st                            *)
FreshAccelerations(st) ==
    \A k \in Indices(st.bodies) :
        st.bodies[k].acc = _computeAccelerations(st.bodies, st.G, st.softening)[k].acc

(* C21: no velocity update reads a stale acceleration: the accelerations    *)
(* the first half-kick of an unpaused step reads are the ones computed from *)
(* the list, masses and positions and the G the step starts from, also      *)
(* after a merge, an addBody call or a change of G.                         *)
C21_NoStaleAcceleration ==
    (lastOp.name = "step" /\ ~lastOp.before.paused) =>
        FreshAccelerations(lastOp.before)

(* the list bs is in the order in which its bodies were created *)
InCreationOrder(bs) == \A k, l \in Indices(bs) : k < l => bs[k].id < bs[l].id

(* C22: in every merge the survivor is the body whose mass was greater      *)
(* just before the merge, and with equal masses the body with the lower     *)
(* index in the list; the lighter body never absorbs the heavier one.       *)
(* The list is in creation order, so the lower index is the lower id.       *)
C22_HeavierBodySurvives ==
    /\ InCreationOrder(bodies)
    /\ \A e \in 1..Len(merges) :
         \/ merges[e].bigMass > merges[e].smallMass
         \/ /\ merges[e].bigMass = merges[e].smallMass
            /\ merges[e].big < merges[e].small

(* a pass in which a heavier body later in the list absorbed an earlier one *)
(* and a body absorbed one of equal mass                                    *)
C22_Witness ==
    /\ lastOp.name = "step"
    /\ \E e \in 1..Len(merges) :
         merges[e].bigMass > merges[e].smallMass /\ merges[e].big > merges[e].small
    /\ \E e \in 1..Len(merges) :
         merges[e].bigMass = merges[e].smallMass /\ merges[e].big < merges[e].small

(* C23: after a merge the survivor is a star exactly when it was a star     *)
(* before or its new total mass is strictly greater than 2000; a non-star   *)
(* survivor of total mass <= 2000 keeps its type and a star stays a star;   *)
(* so every non-star body in the list has mass <= 2000.                     *)
C23_StarExactlyAboveThreshold ==
    /\ \A e \in 1..Len(merges) :
         /\ merges[e].afterType = "star" <=>
              (merges[e].bigType = "star" \/ merges[e].afterMass > 2000)
         /\ merges[e].afterType # "star" => merges[e].afterType = merges[e].bigType
    /\ \A k \in Indices(bodies) : bodies[k].type # "star" => bodies[k].mass <= 2000

(* a pass in which a planet reached mass 2000 and stayed a planet, then     *)
(* absorbed once more and became a star                                     *)
C23_Witness ==
    /\ lastOp.name = "step"
    /\ \E e \in 1..Len(merges) :
         /\ merges[e].bigType = "planet"
         /\ merges[e].afterMass = 2000
         /\ merges[e].afterType = "planet"
    /\ \E e \in 1..Len(merges) :
         /\ merges[e].bigType = "planet"
         /\ merges[e].afterMass > 2000
         /\ merges[e].afterType = "star"
    /\ \E k \in Indices(bodies) : bodies[k].type = "star" /\ bodies[k].mass > 2000

(* the trail of the body old after a step whose substeps left it at pos:    *)
(* the old trail followed by pos, less its oldest entry when it was full    *)
TrailAfter(old, pos) ==
    IF Len(old.trail) = old.maxTrail THEN Append(Tail(old.trail), pos)
                                     ELSE Append(old.trail, pos)

(* every body kept by the last step has the trail TrailAfter gives for the  *)
(* position it has in ends, the list as the substeps left it                *)
TrailsExtended(ends) ==
    \A p \in Kept :
        (/\ lastOp.before.bodies[p[2]].maxTrail >= 1
         /\ Len(lastOp.before.bodies[p[2]].trail) <= lastOp.before.bodies[p[2]].maxTrail)
        => bodies[p[1]].trail = TrailAfter(lastOp.before.bodies[p[2]], ends[p[2]].pos)

(* C24: each unpaused step appends exactly one entry to each body's trail,  *)
(* whatever the substeps count: with cap c >= 1 and a trail of length       *)
(* n <= c, the trail after the step is the old trail followed by the        *)
(* body's position at the end of the substeps, with the oldest entry        *)
(* removed when n = c.                                                      *)
C24_OneTrailEntryPerStep ==
    (lastOp.name = "step" /\ ~lastOp.before.paused) =>
        TrailsExtended(AfterSubsteps(lastOp.before.bodies))

(* a step of several substeps that moved a body whose trail was full *)
C24_Witness ==
    /\ lastOp.name = "step"
    /\ ~lastOp.before.paused
    /\ substeps > 1
    /\ \E p \in Kept :
         /\ Len(lastOp.before.bodies[p[2]].trail) = lastOp.before.bodies[p[2]].maxTrail
         /\ bodies[p[1]].trail # lastOp.before.bodies[p[2]].trail
         /\ Len(bodies[p[1]].trail) = Len(lastOp.before.bodies[p[2]].trail)

(* the ids of the list bs, in order *)
Ids(bs) == [k \in Indices(bs) |-> bs[k].id]

(* the body with this id was absorbed in the last collision pass *)
WasAbsorbed(id) == \E e \in 1..Len(merges) : merges[e].small = id

(* C25: after every step the list is exactly the subsequence of the list    *)
(* before the step made of the bodies that were not absorbed, in the same   *)
(* order and without duplicates; so between operations every body of the   *)
(* list is alive, and no later step meets a dead body.                      *)
C25_ListIsTheSurvivorsInOrder ==
    /\ \A k \in Indices(bodies) : bodies[k].alive
    /\ \A k, l \in Indices(bodies) : k # l => bodies[k].id # bodies[l].id
    /\ (lastOp.name = "step" /\ ~lastOp.before.paused) =>
          Ids(bodies) = SelectSeq(Ids(lastOp.before.bodies),
                                  LAMBDA id : ~WasAbsorbed(id))

(* a step that removed the first of three bodies and kept the other two *)
C25_Witness ==
    /\ lastOp.name = "step"
    /\ ~lastOp.before.paused
    /\ Len(lastOp.before.bodies) = 3
    /\ WasAbsorbed(lastOp.before.bodies[1].id)
    /\ Ids(bodies) = << lastOp.before.bodies[2].id, lastOp.before.bodies[3].id >>

(* what the last operation adds to the age of a body: 1 for an unpaused     *)
(* step, 0 for anything else                                                *)
Aged == IF lastOp.name = "step" /\ ~lastOp.before.paused THEN 1 ELSE 0

(* C26: a body's age is the number of unpaused steps since it was added: a  *)
(* new body has age 0, each unpaused step adds exactly 1 to the age of      *)
(* every body of the list, paused steps and other calls leave it alone,     *)
(* and a merge does not reset the survivor's age.                           *)
C26_AgeCountsUnpausedSteps ==
    /\ \A p \in Kept : bodies[p[1]].age = lastOp.before.bodies[p[2]].age + Aged
    /\ (lastOp.name = "addBody" /\ ~lastOp.threw) => bodies[Len(bodies)].age = 0

(* an unpaused step in which a body of age 1 absorbed another and came out  *)
(* with age 2                                                               *)
C26_Witness ==
    /\ lastOp.name = "step"
    /\ ~lastOp.before.paused
    /\ \E p \in Kept :
         /\ Absorbed(bodies[p[1]].id)
         /\ lastOp.before.bodies[p[2]].age = 1
         /\ bodies[p[1]].age = 2

(* The phases of one substep in the order the scheme prescribes, each on    *)
(* the whole list: half-kick with the old accelerations, drift with the     *)
(* updated velocities, accelerations from the new positions, half-kick     *)
(* with the new accelerations.                                              *)
Kicked(bs, dt) == halfKick(bs, dt)
Drifted(bs, dt) == drift(Kicked(bs, dt), dt)
Recomputed(bs, dt) == _computeAccelerations(Drifted(bs, dt), G, softening)
KickedAgain(bs, dt) == halfKick(Recomputed(bs, dt), dt)

(* n substeps in that order *)
RECURSIVE InOrder(_, _, _)
InOrder(bs, n, dt) ==
    IF ~Computed(bs) \/ n = 0 THEN bs
    ELSE InOrder(KickedAgain(bs, dt), n - 1, dt)

(* the list after `substeps` substeps of dt / substeps, then the trail      *)
(* recording, then the collision pass                                       *)
InOrderStep(bs, dt) ==
    _resolveCollisions(recordFrame(InOrder(bs, substeps, MulDiv(dt, 1, substeps)))).bodies

(* C27: every unpaused step runs exactly `substeps` substeps, each one a    *)
(* half-kick with the old acceleration, a drift with the updated velocity,  *)
(* the recomputation of all accelerations from the new positions and a      *)
(* half-kick with the new acceleration, for the whole list; the trail       *)
(* recording, the collision pass and the clock advance come after the last  *)
(* substep, in that order.                                                  *)
C27_SubstepsRunInOrder ==
    (lastOp.name = "step" /\ ~lastOp.before.paused) =>
        /\ bodies = InOrderStep(lastOp.before.bodies,
                                stepDt(lastOp.frameDt, lastOp.timeScale))
        /\ elapsed = lastOp.before.elapsed + stepDt(lastOp.frameDt, lastOp.timeScale)

(* an unpaused step of six substeps that moved bodies in orbit *)
C27_Witness ==
    /\ lastOp.name = "step"
    /\ ~lastOp.before.paused
    /\ substeps = PHYSICS_SUBSTEPS
    /\ Len(lastOp.before.bodies) >= 2
    /\ lastOp.before.bodies[2].vel # Zero
    /\ bodies[2].pos # lastOp.before.bodies[2].pos
    /\ bodies[2].vel # lastOp.before.bodies[2].vel

(* the sum of mass * velocity over the list bs, in whole units *)
RECURSIVE MomentumFrom(_, _)
MomentumFrom(bs, k) ==
    IF k > Len(bs) THEN Zero
    ELSE add(Vector2(MulDiv(bs[k].mass, bs[k].vel.x, LS),
                     MulDiv(bs[k].mass, bs[k].vel.y, LS)),
             MomentumFrom(bs, k + 1))
Momentum(bs) == MomentumFrom(bs, 1)

(* p and q are equal up to n units, the rounding of the velocities *)
SameMomentum(p, q, n) == Abs(p.x - q.x) <= n /\ Abs(p.y - q.y) <= n

(* the rounding of the velocities of bodies of total mass m: a hundredth    *)
(* of a velocity unit for each unit of mass, and 3                          *)
Rounding(m) == 3 + m \div 100

(* every absorb of the last pass left the survivor with the momentum of     *)
(* the two bodies                                                           *)
MergesKeepMomentum ==
    \A e \in 1..Len(merges) :
        SameMomentum(
            Vector2(MulDiv(merges[e].afterMass, merges[e].afterVel.x, LS),
                    MulDiv(merges[e].afterMass, merges[e].afterVel.y, LS)),
            Vector2(MulDiv(merges[e].bigMass, merges[e].bigVel.x, LS)
                      + MulDiv(merges[e].smallMass, merges[e].smallVel.x, LS),
                    MulDiv(merges[e].bigMass, merges[e].bigVel.y, LS)
                      + MulDiv(merges[e].smallMass, merges[e].smallVel.y, LS)),
            Rounding(merges[e].afterMass))

(* C28: a merge conserves momentum: the survivor's velocity v' satisfies    *)
(* (m_big + m_small) * v' = m_big * v_big + m_small * v_small, so the sum   *)
(* of mass * velocity over the bodies of the list is the same after the     *)
(* collision pass as before it.                                             *)
C28_PassConservesMomentum ==
    (lastOp.name = "step" /\ ~lastOp.before.paused) =>
        /\ MergesKeepMomentum
        /\ SameMomentum(Momentum(bodies),
                        Momentum(AfterSubsteps(lastOp.before.bodies)),
                        Rounding(TotalMass(lastOp.before.bodies)))

(* C29: when a touch drag ends, the drag-end callback receives the world    *)
(* position of the last touch point reported during the drag, the last      *)
(* touchmove, not the position where the drag started; so a touch drag of   *)
(* non-zero length yields a non-zero launch vector.                         *)
C29_TouchDragEndsAtLastTouch ==
    (/\ callback.name = "onDragEnd"
     /\ callback.event = "touchend"
     /\ moved # << >>)
    => /\ callback.end = screenToWorld(Camera, moved[1].x, moved[1].y)
       /\ moved[1] # handler._dragStart => callback.end # callback.start

(* C30: a step never empties a non-empty engine and never adds bodies: a    *)
(* list of n >= 1 bodies before a step holds between 1 and n bodies after   *)
(* it, however the bodies overlap; every body the step removed was          *)
(* absorbed, and after a pass with merges a body that absorbed is in the    *)
(* list.                                                                    *)
C30_StepKeepsAtLeastOneBody ==
    lastOp.name = "step" =>
        /\ Len(lastOp.before.bodies) >= 1 =>
             (1 <= Len(bodies) /\ Len(bodies) <= Len(lastOp.before.bodies))
        /\ Len(lastOp.before.bodies) = 0 => Len(bodies) = 0
        /\ ~lastOp.before.paused =>
             /\ \A k \in Indices(lastOp.before.bodies) :
                  \/ \E l \in Indices(bodies) : bodies[l].id = lastOp.before.bodies[k].id
                  \/ WasAbsorbed(lastOp.before.bodies[k].id)
             /\ merges # << >> => \E l \in Indices(bodies) : Absorbed(bodies[l].id)

(* a step that merged three overlapping bodies into one *)
C30_Witness ==
    /\ lastOp.name = "step"
    /\ ~lastOp.before.paused
    /\ Len(lastOp.before.bodies) = 3
    /\ Len(bodies) = 1
    /\ Len(merges) >= 2
    /\ Absorbed(bodies[1].id)

====
